---- MODULE Spec2Model ----
(***************************************************************************)
(* ElectricVehiclePopulation (Exercises/Exercise-8): a context manager     *)
(* that loads a CSV file into an in-memory DuckDB table and answers four   *)
(* aggregate queries over it.                                              *)
(*                                                                         *)
(* Text is modelled as a sequence of character codes (ASCII), so that the  *)
(* parsers (int, float, the POINT pattern), the derived Vehicle column and *)
(* the byte-wise ordering of VARCHAR values are computed, not assumed.     *)
(***************************************************************************)
EXTENDS Integers, Sequences, FiniteSets, TLC

VARIABLES
    csv,       \* the rows csv.DictReader yields for the file at _csv_path
    conn,      \* self._conn: 0 when the attribute is absent, else a connection id
    live,      \* the DuckDB connections that are open
    db,        \* live connection -> its electric_vehicles_population table
    made,      \* number of connections created so far (allocates the ids)
    inWith,    \* TRUE between a returning __enter__ and the __exit__ that matches it
    lastOp,    \* the method called last
    ret,       \* what it returned
    exc,       \* the exception it raised, "" when it returned
    fs,        \* destination prefix -> the partition files found under it
    firstRet   \* history: per query, the first result of the current session

vars == <<csv, conn, live, db, made, inWith, lastOp, ret, exc, fs, firstRet>>

----------------------------------------------------------------------------
(* Bounds *)

\* rows of a file in the lifecycle specification (every order of rows)
MaxFileRows == 2
\* rows of a file in the query specification (every multiset of valid rows)
MaxRows == 10
\* connections one instance may create in a behaviour
MaxConns == 2

----------------------------------------------------------------------------
(* Text *)

IsDigit(c) == c \in 48..57

\* byte-wise lexicographic order, the order of VARCHAR under ORDER BY
RECURSIVE StrLess(_, _)
StrLess(a, b) ==
    IF Len(b) = 0 THEN FALSE
    ELSE IF Len(a) = 0 THEN TRUE
    ELSE IF a[1] # b[1] THEN a[1] < b[1]
    ELSE StrLess(Tail(a), Tail(b))

RECURSIVE DigitsVal(_)
DigitsVal(s) ==
    IF Len(s) = 0 THEN 0
    ELSE DigitsVal(SubSeq(s, 1, Len(s) - 1)) * 10 + (s[Len(s)] - 48)

\* int(text): an optional sign and one or more decimal digits, else ValueError.
\* (Surrounding blanks and digit-group underscores, which int also accepts,
\* do not occur in the files drawn here.)
PyInt(s) ==
    LET signed == Len(s) > 0 /\ s[1] \in {43, 45}
        body   == IF signed THEN Tail(s) ELSE s
        ok     == Len(body) > 0 /\ \A i \in 1..Len(body) : IsDigit(body[i])
        mag    == IF ok THEN DigitsVal(body) ELSE 0
    IN  [ok |-> ok, val |-> IF signed /\ s[1] = 45 THEN 0 - mag ELSE mag]

\* float(text) succeeds: sign? digits+ ('.' digits* )?  (the literals of the data)
PyFloatOk(s) ==
    LET signed == Len(s) > 0 /\ s[1] \in {43, 45}
        body   == IF signed THEN Tail(s) ELSE s
        dots   == {i \in 1..Len(body) : body[i] = 46}
    IN  /\ Len(body) > 0
        /\ IsDigit(body[1])
        /\ Cardinality(dots) <= 1
        /\ \A i \in 1..Len(body) : IsDigit(body[i]) \/ body[i] = 46

\* "POINT ("
PointPrefix == <<80, 79, 73, 78, 84, 32, 40>>

\* _parse_vehicle_location: ^POINT \(([^ ]+) ([^ ]+)\)$ then float() of both groups
ParseVehicleLocation(s) ==
    LET n      == Len(s)
        shape  == /\ n >= Len(PointPrefix) + 4
                  /\ SubSeq(s, 1, Len(PointPrefix)) = PointPrefix
                  /\ s[n] = 41
        mid    == IF shape THEN SubSeq(s, Len(PointPrefix) + 1, n - 1) ELSE <<>>
        blanks == {i \in 1..Len(mid) : mid[i] = 32}
        match  == /\ shape
                  /\ Cardinality(blanks) = 1
                  /\ \A i \in blanks : 1 < i /\ i < Len(mid)
        cut    == IF match THEN CHOOSE i \in blanks : TRUE ELSE 1
        lon    == SubSeq(mid, 1, cut - 1)
        lat    == SubSeq(mid, cut + 1, Len(mid))
    IN  [ok  |-> match /\ PyFloatOk(lon) /\ PyFloatOk(lat),
         lon |-> IF match THEN <<lon>> ELSE <<>>,
         lat |-> IF match THEN <<lat>> ELSE <<>>]

\* str(n) for n >= 0, as in the partition directory name Model_Year=<n>
RECURSIVE Digits(_)
Digits(n) ==
    IF n < 10 THEN <<48 + n>> ELSE Digits(n \div 10) \o <<48 + (n % 10)>>

----------------------------------------------------------------------------
(* The input file *)

\* One data row of the file, as csv.DictReader yields it.  The columns that
\* are copied through unread (VIN, County, State, Electric Vehicle Type, CAFV
\* Eligibility, Electric Utility) are left out.
Row(city, postal, year, make, model, district, location) ==
    [City |-> city, PostalCode |-> postal, ModelYear |-> year, Make |-> make,
     Model |-> model, ElectricRange |-> <<56, 52>>, BaseMSRP |-> <<48>>,
     LegislativeDistrict |-> district, VehicleLocation |-> location,
     CensusTract |-> <<53, 51>>]

\* "POINT (-1.5 47)"
SomePoint == PointPrefix \o <<45, 49, 46, 53, 32, 52, 55, 41>>

\* Well-formed rows.  Cities "A", "AB", "B"; postal codes 98, 99, 7; model
\* years 2019, 2020, 5; vehicles "T 3", "T X", "N L S" (from two different
\* make/model pairs) and "B X".
GoodRows ==
    << Row(<<66>>, <<57, 56>>, <<50, 48, 49, 57>>, <<84>>, <<51>>,
           <<49, 52>>, SomePoint),
       Row(<<65>>, <<57, 56>>, <<50, 48, 49, 57>>, <<84>>, <<88>>,
           <<>>, SomePoint),
       Row(<<65, 66>>, <<57, 57>>, <<50, 48, 50, 48>>, <<78>>, <<76, 32, 83>>,
           <<>>, <<>>),
       Row(<<65>>, <<57, 56>>, <<50, 48, 50, 48>>, <<78, 32, 76>>, <<83>>,
           <<49>>, SomePoint),
       Row(<<66>>, <<55>>, <<53>>, <<66>>, <<88>>,
           <<51, 56>>, <<>>) >>

\* Malformed rows: postal code "ABCD"; postal code "-1"; location
\* "POINT(1 2)"; model year "70000".
BadRows ==
    << Row(<<66>>, <<65, 66, 67, 68>>, <<50, 48, 49, 57>>, <<84>>, <<51>>,
           <<49, 52>>, SomePoint),
       Row(<<66>>, <<45, 49>>, <<50, 48, 49, 57>>, <<84>>, <<51>>,
           <<49, 52>>, SomePoint),
       Row(<<66>>, <<57, 56>>, <<50, 48, 49, 57>>, <<84>>, <<51>>,
           <<49, 52>>, <<80, 79, 73, 78, 84, 40, 49, 32, 50, 41>>),
       Row(<<66>>, <<57, 56>>, <<55, 48, 48, 48, 48>>, <<84>>, <<51>>,
           <<49, 52>>, SomePoint) >>

Range(s) == {s[i] : i \in 1..Len(s)}

RowKinds == Range(GoodRows) \cup Range(BadRows)

\* every file of at most n rows, in every order
RECURSIVE FilesUpTo(_)
FilesUpTo(n) ==
    IF n = 0 THEN {<<>>}
    ELSE LET shorter == FilesUpTo(n - 1)
         IN  shorter \cup {Append(f, r) : f \in shorter, r \in RowKinds}

RECURSIVE Repeat(_, _)
Repeat(r, k) == IF k = 0 THEN <<>> ELSE <<r>> \o Repeat(r, k - 1)

RECURSIVE Total(_, _)
Total(m, k) == IF k = 0 THEN 0 ELSE m[k] + Total(m, k - 1)

RECURSIVE Layout(_, _)
Layout(m, k) == IF k = 0 THEN <<>> ELSE Layout(m, k - 1) \o Repeat(GoodRows[k], m[k])

\* the files of at most n well-formed rows, one per multiset of rows (the
\* queries group and count, so the order of the rows does not reach them)
ValidFilesUpTo(n) ==
    {Layout(m, Len(GoodRows)) :
        m \in {x \in [1..Len(GoodRows) -> 0..n] : Total(x, Len(GoodRows)) <= n}}

----------------------------------------------------------------------------
(* Loading *)

\* Optional values are sequences of length 0 (None / NULL) or 1.
None == <<>>

\* _load_csv_row: the columns appended to dtDict for one row, or ValueError
LoadCsvRow(row) ==
    LET postal   == PyInt(row.PostalCode)
        year     == PyInt(row.ModelYear)
        range    == PyInt(row.ElectricRange)
        msrp     == PyInt(row.BaseMSRP)
        hasDist  == Len(row.LegislativeDistrict) > 0
        dist     == PyInt(row.LegislativeDistrict)
        hasLoc   == Len(row.VehicleLocation) > 0
        loc      == ParseVehicleLocation(row.VehicleLocation)
        tract    == PyInt(row.CensusTract)
        district == IF hasDist THEN <<dist.val>> ELSE None
    IN  [ok  |-> /\ postal.ok /\ year.ok /\ range.ok /\ msrp.ok
                 /\ (hasDist => dist.ok)
                 /\ (hasLoc => loc.ok)
                 /\ tract.ok,
         rec |-> [City |-> row.City,
                  Postal_Code |-> postal.val,
                  Model_Year |-> year.val,
                  Make |-> row.Make,
                  Model |-> row.Model,
                  Vehicle |-> row.Make \o <<32>> \o row.Model,
                  Electric_Range |-> range.val,
                  Base_MSRP |-> msrp.val,
                  Legislative_District |-> district,
                  DOL_Vehicle_ID |-> district,
                  Longitude |-> IF hasLoc THEN loc.lon ELSE None,
                  Latitude |-> IF hasLoc THEN loc.lat ELSE None,
                  y_2020_Census_Tract |-> tract.val]]

\* the loop over csv.DictReader: dtDict, or ValueError at the first bad row
LoadCsv(file) ==
    [ok   |-> \A i \in 1..Len(file) : LoadCsvRow(file[i]).ok,
     rows |-> [i \in 1..Len(file) |-> LoadCsvRow(file[i]).rec]]

USMALLINT_MAX == 65535

InUSmallInt(v) == 0 <= v /\ v <= USMALLINT_MAX

\* UINTEGER and UBIGINT: the upper limits (2^32 - 1, 2^64 - 1) lie above every
\* number of the files drawn here, so only the sign can be out of range.
InUnsigned(v) == 0 <= v

\* The column types of CREATE TABLE accept the row (INSERT casts each value
\* and raises a conversion error when it is out of range).
FitsTable(r) ==
    /\ InUnsigned(r.Postal_Code)
    /\ InUSmallInt(r.Model_Year)
    /\ InUSmallInt(r.Electric_Range)
    /\ InUnsigned(r.Base_MSRP)
    /\ \A i \in 1..Len(r.Legislative_District) : InUSmallInt(r.Legislative_District[i])
    /\ \A i \in 1..Len(r.DOL_Vehicle_ID) : InUnsigned(r.DOL_Vehicle_ID[i])
    /\ InUnsigned(r.y_2020_Census_Tract)

----------------------------------------------------------------------------
(* The queries, over a table t (a sequence of rows) *)

\* ORDER BY <integer column>, Vehicle ASC over rows (key, Vehicle, ...):
\* Rank, Vehicle in top_3_electric_vehicles; Postal_Code, Vehicle in
\* most_popular_by_postal_code
KeyVehicleBefore(a, b) == a[1] < b[1] \/ (a[1] = b[1] /\ StrLess(a[2], b[2]))

RECURSIVE OrderByKeyThenVehicle(_)
OrderByKeyThenVehicle(S) ==
    IF S = {} THEN <<>>
    ELSE LET first == CHOOSE x \in S : \A y \in S \ {x} : KeyVehicleBefore(x, y)
         IN  <<first>> \o OrderByKeyThenVehicle(S \ {first})

\* DENSE_RANK() OVER (ORDER BY COUNT(*) DESC) of a group with count c, among
\* the groups of its partition, whose counts are `counts`
DenseRank(c, counts) == Cardinality({d \in counts : d > c}) + 1

\* mutant: COUNT(DISTINCT Vehicle) in place of COUNT(*)
GroupByCityDistinct(t) ==
    {<<c, Cardinality({t[i].Vehicle : i \in {j \in DOMAIN t : t[j].City = c}})>> :
        c \in {t[i].City : i \in DOMAIN t}}

\* SELECT City, COUNT(*) ... GROUP BY City
GroupByCity(t) ==
    {<<c, Cardinality({i \in DOMAIN t : t[i].City = c})>> :
        c \in {t[i].City : i \in DOMAIN t}}

\* ORDER BY Count DESC: every arrangement of the groups with the counts
\* descending; the query leaves the order of equal counts to the engine.
OrderByCountDesc(G) ==
    LET n == Cardinality(G)
    IN  {s \in [1..n -> G] :
            /\ \A i, j \in 1..n : i # j => s[i] # s[j]
            /\ \A i \in 1..n : i < n => s[i][2] >= s[i + 1][2]}

\* the vehicles_rank CTE: (Rank, Vehicle, Count) per vehicle
VehiclesRank(t) ==
    LET vehicles == {t[i].Vehicle : i \in DOMAIN t}
        count(v) == Cardinality({i \in DOMAIN t : t[i].Vehicle = v})
        counts   == {count(v) : v \in vehicles}
    IN  {<<DenseRank(count(v), counts), v, count(v)>> : v \in vehicles}

RankLimit == 3

\* mutant: the first three rows (LIMIT 3) in place of WHERE Rank <= 3
Top3RowsLimit(t) ==
    LET all == OrderByKeyThenVehicle(VehiclesRank(t))
    IN  SubSeq(all, 1, IF Len(all) < RankLimit THEN Len(all) ELSE RankLimit)

\* ... WHERE Rank <= 3 ORDER BY Rank, Vehicle ASC, then list(zip(...))
Top3Rows(t) ==
    OrderByKeyThenVehicle({r \in VehiclesRank(t) : r[1] <= RankLimit})

\* mutant: the window without PARTITION BY Postal_Code
PostalCodeVehicleRankGlobal(t) ==
    LET pairs    == {<<t[i].Postal_Code, t[i].Vehicle>> : i \in DOMAIN t}
        count(k) == Cardinality({i \in DOMAIN t :
                        t[i].Postal_Code = k[1] /\ t[i].Vehicle = k[2]})
        counts   == {count(k) : k \in pairs}
    IN  {<<DenseRank(count(k), counts), k[1], k[2], count(k)>> : k \in pairs}

\* the postal_code_vehicle_rank CTE: (Rank, Postal_Code, Vehicle, Count)
PostalCodeVehicleRank(t) ==
    LET pairs    == {<<t[i].Postal_Code, t[i].Vehicle>> : i \in DOMAIN t}
        count(k) == Cardinality({i \in DOMAIN t :
                        t[i].Postal_Code = k[1] /\ t[i].Vehicle = k[2]})
        counts(p) == {count(k) : k \in {x \in pairs : x[1] = p}}
    IN  {<<DenseRank(count(k), counts(k[1])), k[1], k[2], count(k)>> : k \in pairs}

\* ... WHERE Rank = 1 ORDER BY Postal_Code, Vehicle: (Postal_Code, Vehicle, Count)
MostPopularRows(t) ==
    OrderByKeyThenVehicle({<<r[2], r[3], r[4]>> :
                           r \in {x \in PostalCodeVehicleRank(t) : x[1] = 1}})

\* for value in df.values: ret[value[0]].append((value[1], value[2]))
CollectByPostalCode(df) ==
    [p \in {df[i][1] : i \in DOMAIN df} |->
        LET mine == SelectSeq(df, LAMBDA r : r[1] = p)
        IN  [i \in 1..Len(mine) |-> <<mine[i][2], mine[i][3]>>]]

\* SELECT Model_Year, COUNT(*) ... GROUP BY Model_Year
GroupByModelYear(t) ==
    {<<y, Cardinality({i \in DOMAIN t : t[i].Model_Year = y})>> :
        y \in {t[i].Model_Year : i \in DOMAIN t}}

\* dict(zip(keys, values)) where the order of the keys is not looked at
AsDict(G) == [k \in {g[1] : g \in G} |-> (CHOOSE g \in G : g[1] = k)[2]]

\* mutant: PARTITION_BY (Count) in place of PARTITION_BY (Model_Year)
PartitionFilesByCount(G) ==
    {[dir |-> Digits(g[2]), counts |-> <<g[2]>>] : g \in G}

\* COPY ... (FORMAT PARQUET, PARTITION_BY (Model_Year)): one file per year in
\* a directory Model_Year=<year>; the file keeps the remaining column, Count.
PartitionFiles(G) ==
    {[dir |-> Digits(y), counts |-> <<AsDict(G)[y]>>] : y \in {g[1] : g \in G}}

\* the files of `old` that writing `new` leaves in place
KeptFiles(old, new) == {f \in old : \A g \in new : g.dir # f.dir}

\* read_parquet('<prefix>/Model_Year=*/*.parquet'): (Model_Year, Count) rows,
\* Model_Year parsed back from the directory name
ReadParquet(files) ==
    UNION {{<<PyInt(f.dir).val, f.counts[i]>> : i \in 1..Len(f.counts)} : f \in files}

----------------------------------------------------------------------------
(* The instance *)

Queries == {"city", "top3", "postal", "year"}

Prefixes == {"out", "tmp"}

NoRet == <<>>

NoHistory == [q \in Queries |-> <<>>]

Table == db[conn]

\* mutant: no check of self._conn; a second connection replaces the first
EnterReconnects ==
    /\ conn # 0
    /\ made < MaxConns
    /\ made' = made + 1
    /\ conn' = made + 1
    /\ live' = live \cup {made + 1}
    /\ db' = [c \in live \cup {made + 1} |-> IF c = made + 1 THEN <<>> ELSE db[c]]
    /\ lastOp' = "enter" /\ exc' = "" /\ ret' = NoRet
    /\ UNCHANGED <<csv, inWith, fs>>

\* __enter__, line 61: the instance already holds a connection
EnterAlreadyConnected ==
    /\ conn # 0
    /\ lastOp' = "enter" /\ exc' = "RuntimeError" /\ ret' = NoRet
    /\ UNCHANGED <<csv, conn, live, db, made, inWith, fs>>

\* __enter__, lines 64-67: a row does not parse; nothing was connected yet
EnterBadRow ==
    /\ conn = 0
    /\ ~LoadCsv(csv).ok
    /\ lastOp' = "enter" /\ exc' = "ValueError" /\ ret' = NoRet
    /\ UNCHANGED <<csv, conn, live, db, made, inWith, fs>>

\* __enter__, lines 69-97: the connection is stored in self._conn, the table
\* is created, and INSERT raises: a value does not fit its column (a
\* conversion error), or the file has no data row, so that dtDict is empty
\* and the DataFrame has no column to select into the table.  The exception
\* leaves __enter__; the with statement does not call __exit__.
EnterInsertFails ==
    /\ conn = 0
    /\ LoadCsv(csv).ok
    /\ made < MaxConns
    /\ \/ Len(csv) = 0
       \/ \E i \in 1..Len(csv) : ~FitsTable(LoadCsv(csv).rows[i])
    /\ made' = made + 1
    /\ conn' = made + 1
    /\ live' = live \cup {made + 1}
    /\ db' = [c \in live \cup {made + 1} |-> IF c = made + 1 THEN <<>> ELSE db[c]]
    /\ lastOp' = "enter" /\ ret' = NoRet
    /\ exc' = IF Len(csv) = 0 THEN "duckdb.Error" ELSE "ConversionException"
    /\ UNCHANGED <<csv, inWith, fs>>

\* __enter__, lines 61-98, returning self
EnterOk ==
    /\ conn = 0
    /\ LoadCsv(csv).ok
    /\ made < MaxConns
    /\ Len(csv) > 0
    /\ \A i \in 1..Len(csv) : FitsTable(LoadCsv(csv).rows[i])
    /\ made' = made + 1
    /\ conn' = made + 1
    /\ live' = live \cup {made + 1}
    /\ db' = [c \in live \cup {made + 1} |->
                 IF c = made + 1 THEN LoadCsv(csv).rows ELSE db[c]]
    /\ inWith' = TRUE
    /\ lastOp' = "enter" /\ exc' = "" /\ ret' = NoRet
    /\ UNCHANGED <<csv, fs>>

\* mutant: the connection is closed and self._conn is kept
ExitKeepsConn ==
    /\ inWith
    /\ live' = live \ {conn}
    /\ db' = [c \in live \ {conn} |-> db[c]]
    /\ inWith' = FALSE
    /\ lastOp' = "exit" /\ exc' = "" /\ ret' = NoRet
    /\ UNCHANGED <<csv, conn, made, fs>>

\* __exit__, called by the with statement whose __enter__ returned
Exit ==
    /\ inWith
    /\ live' = live \ {conn}
    /\ db' = [c \in live \ {conn} |-> db[c]]
    /\ conn' = 0
    /\ inWith' = FALSE
    /\ lastOp' = "exit" /\ exc' = "" /\ ret' = NoRet
    /\ UNCHANGED <<csv, made, fs>>

\* count_cars_by_city: the dict keeps the order of the rows of df
CountCarsByCity ==
    /\ inWith
    /\ \E df \in OrderByCountDesc(GroupByCity(Table)) : ret' = df
    /\ lastOp' = "city" /\ exc' = ""
    /\ UNCHANGED <<csv, conn, live, db, made, inWith, fs>>

\* mutant: the query removes the rows of the vehicles it reports
Top3Consuming ==
    /\ inWith
    /\ ret' = Top3Rows(Table)
    /\ db' = [db EXCEPT ![conn] =
                 SelectSeq(@, LAMBDA r : \A i \in DOMAIN Top3Rows(Table) :
                                             Top3Rows(Table)[i][2] # r.Vehicle)]
    /\ lastOp' = "top3" /\ exc' = ""
    /\ UNCHANGED <<csv, conn, live, made, inWith, fs>>

Top3ElectricVehicles ==
    /\ inWith
    /\ ret' = Top3Rows(Table)
    /\ lastOp' = "top3" /\ exc' = ""
    /\ UNCHANGED <<csv, conn, live, db, made, inWith, fs>>

MostPopularByPostalCode ==
    /\ inWith
    /\ ret' = CollectByPostalCode(MostPopularRows(Table))
    /\ lastOp' = "postal" /\ exc' = ""
    /\ UNCHANGED <<csv, conn, live, db, made, inWith, fs>>

\* count_cars_by_year(prefix).  COPY onto a destination that already holds
\* files depends on the engine: it refuses (an I/O error, nothing written,
\* nothing returned), or it replaces the files of the partitions it writes.
CountCarsByYear(prefix) ==
    /\ inWith
    /\ lastOp' = "year"
    /\ LET df == GroupByModelYear(Table)
       IN  \/ /\ fs[prefix] # {}
              /\ exc' = "IOException" /\ ret' = NoRet
              /\ fs' = fs
           \/ /\ fs' = [fs EXCEPT ![prefix] =
                           KeptFiles(@, PartitionFiles(df)) \cup PartitionFiles(df)]
              /\ exc' = "" /\ ret' = AsDict(df)
    /\ UNCHANGED <<csv, conn, live, db, made, inWith>>

\* the result as compared by ==: a dict compares without its order
Compared(op, r) == IF op = "city" THEN AsDict(Range(r)) ELSE r

\* history: remember the first result each query returns in a session
Noted(op) ==
    firstRet' = IF Len(firstRet[op]) = 0 /\ exc' = ""
                THEN [firstRet EXCEPT ![op] = <<Compared(op, ret')>>]
                ELSE firstRet

InitWith(files) ==
    /\ csv \in files
    /\ conn = 0
    /\ live = {}
    /\ db = <<>>
    /\ made = 0
    /\ inWith = FALSE
    /\ lastOp = "init" /\ ret = NoRet /\ exc = ""
    /\ fs = [p \in Prefixes |-> {}]
    /\ firstRet = NoHistory

\* The lifecycle: every file of at most MaxFileRows rows, well-formed or not.
Init == InitWith(FilesUpTo(MaxFileRows))

Next ==
    \/ EnterAlreadyConnected /\ UNCHANGED firstRet
    \/ EnterBadRow /\ UNCHANGED firstRet
    \/ EnterInsertFails /\ UNCHANGED firstRet
    \/ EnterOk /\ UNCHANGED firstRet
    \/ Exit /\ firstRet' = NoHistory
    \/ CountCarsByCity /\ Noted("city")
    \/ Top3ElectricVehicles /\ Noted("top3")
    \/ MostPopularByPostalCode /\ Noted("postal")
    \/ \E p \in Prefixes : CountCarsByYear(p) /\ Noted("year")

Spec == Init /\ [][Next]_vars

\* The queries over larger tables: one session on every well-formed file of at
\* most MaxRows rows.
InitQ == InitWith(ValidFilesUpTo(MaxRows))

NextQ ==
    \/ EnterOk /\ UNCHANGED firstRet
    \/ CountCarsByCity /\ UNCHANGED firstRet
    \/ Top3ElectricVehicles /\ UNCHANGED firstRet
    \/ MostPopularByPostalCode /\ UNCHANGED firstRet
    \/ CountCarsByYear("out") /\ UNCHANGED firstRet

SpecQ == InitQ /\ [][NextQ]_vars

----------------------------------------------------------------------------
(* What the claims speak of, stated over the rows of the table *)

CountCity(c) == Cardinality({i \in DOMAIN Table : Table[i].City = c})

CountVehicle(v) == Cardinality({i \in DOMAIN Table : Table[i].Vehicle = v})

CountYear(y) == Cardinality({i \in DOMAIN Table : Table[i].Model_Year = y})

CountIn(p, v) ==
    Cardinality({i \in DOMAIN Table :
                    Table[i].Postal_Code = p /\ Table[i].Vehicle = v})

TableCities == {Table[i].City : i \in DOMAIN Table}

TableVehicles == {Table[i].Vehicle : i \in DOMAIN Table}

TablePostalCodes == {Table[i].Postal_Code : i \in DOMAIN Table}

TableYears == {Table[i].Model_Year : i \in DOMAIN Table}

RECURSIVE SumSeq(_)
SumSeq(s) == IF Len(s) = 0 THEN 0 ELSE s[1][2] + SumSeq(Tail(s))

RECURSIVE SumSet(_)
SumSet(S) ==
    IF S = {} THEN 0
    ELSE LET x == CHOOSE y \in S : TRUE IN x[2] + SumSet(S \ {x})

\* the row is one the loader is meant to accept: every field parses and every
\* number lies in the range of its column
RowValid(row) == LoadCsvRow(row).ok /\ FitsTable(LoadCsvRow(row).rec)

Loadable == Len(csv) > 0 /\ \A i \in 1..Len(csv) : RowValid(csv[i])

----------------------------------------------------------------------------
(* C1 *)

\* C1: top_3_electric_vehicles returns exactly the (rank, vehicle, count)
\* triples of dense rank <= 3 by descending per-vehicle count: rank 1 is the
\* greatest count, equal counts share a rank, each further rank is the next
\* smaller count with no count between, every vehicle left out has a smaller
\* count than all of the three ranks returned, and the rows ascend by rank and
\* then by vehicle name.
C1_Top3DenseRank ==
    lastOp = "top3" =>
        /\ exc = ""
        /\ \A i \in DOMAIN ret :
              /\ ret[i][1] \in 1..3
              /\ ret[i][2] \in TableVehicles
              /\ ret[i][3] = CountVehicle(ret[i][2])
              /\ ret[i][1] = 1 <=> \A v \in TableVehicles : CountVehicle(v) <= ret[i][3]
              /\ ret[i][1] > 1 =>
                    \E j \in DOMAIN ret :
                        /\ ret[j][1] = ret[i][1] - 1
                        /\ ret[j][3] > ret[i][3]
                        /\ \A v \in TableVehicles :
                              ~(ret[i][3] < CountVehicle(v) /\ CountVehicle(v) < ret[j][3])
              /\ \A j \in DOMAIN ret : ret[i][3] = ret[j][3] <=> ret[i][1] = ret[j][1]
        /\ \A v \in TableVehicles :
              (\A i \in DOMAIN ret : ret[i][2] # v) =>
                  /\ \E i \in DOMAIN ret : ret[i][1] = 3
                  /\ \A i \in DOMAIN ret : CountVehicle(v) < ret[i][3]
        /\ \A i \in DOMAIN ret :
              i < Len(ret) =>
                  \/ ret[i][1] < ret[i + 1][1]
                  \/ ret[i][1] = ret[i + 1][1] /\ StrLess(ret[i][2], ret[i + 1][2])

\* a tie at rank 3 makes the result longer than three rows
C1_Witness ==
    /\ lastOp = "top3"
    /\ Len(ret) > 3
    /\ Cardinality({i \in DOMAIN ret : ret[i][1] = 3}) >= 2

----------------------------------------------------------------------------
(* C2 *)

\* C2: most_popular_by_postal_code has exactly the postal codes of the data as
\* keys; the list of postal code p holds exactly the vehicles whose count in
\* p is the greatest one in p, each with that count, ascending by name.
C2_MostPopular ==
    lastOp = "postal" =>
        /\ exc = ""
        /\ DOMAIN ret = TablePostalCodes
        /\ \A p \in DOMAIN ret :
              /\ \A i \in DOMAIN ret[p] :
                    /\ ret[p][i][2] = CountIn(p, ret[p][i][1])
                    /\ ret[p][i][2] > 0
                    /\ \A v \in TableVehicles : CountIn(p, v) <= ret[p][i][2]
              /\ \A v \in TableVehicles :
                    (CountIn(p, v) > 0 /\ \A u \in TableVehicles : CountIn(p, u) <= CountIn(p, v))
                        => \E i \in DOMAIN ret[p] : ret[p][i][1] = v
              /\ \A i \in DOMAIN ret[p] :
                    i < Len(ret[p]) => StrLess(ret[p][i][1], ret[p][i + 1][1])

\* two postal codes, one of them with two tied vehicles and a third, less
\* popular one left out
C2_Witness ==
    /\ lastOp = "postal"
    /\ Cardinality(DOMAIN ret) >= 2
    /\ \E p \in DOMAIN ret :
          /\ Len(ret[p]) = 2
          /\ \E v \in TableVehicles :
                CountIn(p, v) > 0 /\ \A i \in DOMAIN ret[p] : ret[p][i][1] # v

----------------------------------------------------------------------------
(* C6, C7 *)

\* C6: count_cars_by_city has each city of the data exactly once as a key, its
\* value is the number of records of that city, and the values sum to the
\* number of records.
C6_CountCarsByCity ==
    lastOp = "city" =>
        /\ exc = ""
        /\ {ret[i][1] : i \in DOMAIN ret} = TableCities
        /\ \A i, j \in DOMAIN ret : ret[i][1] = ret[j][1] => i = j
        /\ \A i \in DOMAIN ret : ret[i][2] = CountCity(ret[i][1])
        /\ SumSeq(ret) = Len(Table)

C6_Witness ==
    /\ lastOp = "city"
    /\ Len(ret) = 3
    /\ \E i \in DOMAIN ret : ret[i][2] >= 2
    /\ Len(Table) >= 6

\* C7: the entries of count_cars_by_city come descending by count, equal
\* counts ascending by city name.
C7_CityOrder ==
    lastOp = "city" =>
        \A i \in DOMAIN ret :
            i < Len(ret) =>
                \/ ret[i][2] > ret[i + 1][2]
                \/ ret[i][2] = ret[i + 1][2] /\ StrLess(ret[i][1], ret[i + 1][1])

----------------------------------------------------------------------------
(* C8 *)

\* C8: when count_cars_by_year returns, its result maps each model year of the
\* data to the number of records of that year, the destination holds one
\* partition per year, reading all partitions back gives exactly the returned
\* pairs, and their counts sum to the number of records.
C8_YearRoundTrip ==
    (lastOp = "year" /\ exc = "") =>
        /\ DOMAIN ret = TableYears
        /\ \A y \in DOMAIN ret : ret[y] = CountYear(y)
        /\ Cardinality(fs["out"]) = Cardinality(TableYears)
        /\ \A f, g \in fs["out"] : f.dir = g.dir => f = g
        /\ ReadParquet(fs["out"]) = {<<y, ret[y]>> : y \in DOMAIN ret}
        /\ SumSet(ReadParquet(fs["out"])) = Len(Table)

C8_Witness ==
    /\ lastOp = "year" /\ exc = ""
    /\ Cardinality(fs["out"]) = 3
    /\ \E y \in DOMAIN ret : ret[y] >= 2
    /\ \E y \in DOMAIN ret : y < 10

----------------------------------------------------------------------------
(* C3, C4 *)

\* C3: loading is all-or-nothing: when a row of the file is not valid, opening
\* a session on an instance that is not open fails with ValueError and leaves
\* the instance without a connection and without a table.
C3_AllOrNothing ==
    (/\ lastOp = "enter"
     /\ exc # "RuntimeError"
     /\ \E i \in 1..Len(csv) : ~RowValid(csv[i]))
        => exc = "ValueError" /\ conn = 0 /\ live = {} /\ ~inWith

\* C4: outside a session (before one, after one that finished or failed) the
\* instance holds no connection and none of its connections is open.
C4_ReleasedOnEveryExitPath ==
    ~inWith => conn = 0 /\ live = {}

----------------------------------------------------------------------------
(* C5 *)

\* C5: __enter__ on an instance that holds a connection raises RuntimeError and
\* leaves the connection, its table, the open connections and the session as
\* they were; no connection is created.
C5_EnterWhileOpen ==
    [][(conn # 0 /\ lastOp' = "enter") =>
          /\ exc' = "RuntimeError"
          /\ UNCHANGED <<conn, live, db, made, inWith, fs>>]_vars

C5_Witness ==
    /\ lastOp = "enter" /\ exc = "RuntimeError"
    /\ inWith
    /\ conn \in live
    /\ Len(Table) > 0

----------------------------------------------------------------------------
(* C9 *)

\* C9 as stated: in an open session the table stays as loaded, and every call
\* of a query returns what the first call of that query returned.
C9_QueriesPure ==
    /\ inWith => Table = LoadCsv(csv).rows
    /\ (lastOp \in Queries /\ Len(firstRet[lastOp]) = 1) =>
          exc = "" /\ Compared(lastOp, ret) = firstRet[lastOp][1]

\* C9 as amended: in an open session the table stays as loaded; every call of
\* a query that returns, returns what the first call of that query returned;
\* the only call that can fail is count_cars_by_year, with an I/O error, on a
\* destination that already holds partition files.
C9_QueriesPureWhenReturning ==
    /\ inWith => Table = LoadCsv(csv).rows
    /\ (lastOp \in Queries /\ exc = "" /\ Len(firstRet[lastOp]) = 1) =>
          Compared(lastOp, ret) = firstRet[lastOp][1]
    /\ (lastOp \in Queries /\ exc # "") =>
          /\ lastOp = "year"
          /\ exc = "IOException"
          /\ \E p \in Prefixes : fs[p] # {}

\* the four queries have all run, count_cars_by_city last and a second time
C9_Witness ==
    /\ inWith
    /\ \A q \in Queries : Len(firstRet[q]) = 1
    /\ lastOp = "city" /\ Len(ret) >= 2
    /\ fs["out"] # {} /\ fs["tmp"] # {}

----------------------------------------------------------------------------
(* C10 *)

\* C10: with a file that loads, the instance holds a connection exactly while
\* a session is open; that connection is the one most recently created, it is
\* the only open one, and its table holds the rows of the file; __enter__
\* raises RuntimeError only inside an open session.
C10_ConnectionExactlyInSession ==
    Loadable =>
        /\ conn # 0 <=> inWith
        /\ live = IF inWith THEN {conn} ELSE {}
        /\ inWith => conn = made /\ Table = LoadCsv(csv).rows
        /\ lastOp = "exit" => conn = 0
        /\ (lastOp = "enter" /\ exc = "RuntimeError") => inWith

\* a second session is open on the same instance
C10_Witness ==
    /\ Loadable
    /\ inWith
    /\ made = 2 /\ conn = 2
    /\ lastOp = "enter" /\ exc = ""

====
